---- MODULE Spec2Model ----
(***************************************************************************)
(* Model of the Brainfish OAS sync action (src/index.js): one invocation   *)
(* of main, which validates its inputs, reads the OAS file, normalizes it  *)
(* to JSON and uploads it with one HTTPS POST.                             *)
(*                                                                         *)
(* Text is a sequence of one-character strings.  File bytes are a sequence *)
(* of byte tokens: an ASCII byte is written as the character it encodes,   *)
(* "xEF" "xBF" "xBD" are the three bytes of U+FFFD (written "uFFFD" as a   *)
(* character), and "xFF" is a byte that occurs in no well-formed UTF-8.    *)
(* JavaScript values are tagged records (field t).                         *)
(***************************************************************************)
EXTENDS Integers, Sequences, FiniteSets, TLC

(***************************************************************************)
(* Strings                                                                 *)
(***************************************************************************)
RECURSIVE LastIndexFrom(_, _, _)
LastIndexFrom(s, c, i) ==
  IF i = 0 THEN 0 ELSE IF s[i] = c THEN i ELSE LastIndexFrom(s, c, i - 1)

LastIndexOf(s, c) == LastIndexFrom(s, c, Len(s))

EndsWith(s, suffix) ==
  /\ Len(s) >= Len(suffix)
  /\ SubSeq(s, Len(s) - Len(suffix) + 1, Len(s)) = suffix

StartsWithAt(s, i, word) ==
  /\ i + Len(word) - 1 <= Len(s)
  /\ SubSeq(s, i, i + Len(word) - 1) = word

LowerChar(c) ==
  CASE c = "A" -> "a" [] c = "J" -> "j" [] c = "L" -> "l" [] c = "M" -> "m"
    [] c = "N" -> "n" [] c = "O" -> "o" [] c = "S" -> "s" [] c = "Y" -> "y"
    [] OTHER -> c

\* String.prototype.toLowerCase
toLowerCase(s) == [i \in 1..Len(s) |-> LowerChar(s[i])]

\* path.basename: the part after the last "/"
basename(p) == SubSeq(p, LastIndexOf(p, "/") + 1, Len(p))

\* path.extname: from the last "." of the basename; "" when there is none or
\* it is the basename's first character
extname(p) ==
  LET b == basename(p)
      i == LastIndexOf(b, ".")
  IN IF i <= 1 \/ b = <<".", ".">> THEN <<>> ELSE SubSeq(b, i, Len(b))

DotYaml == <<".", "y", "a", "m", "l">>
DotYml == <<".", "y", "m", "l">>
DotJson == <<".", "j", "s", "o", "n">>

\* fileName.replace(/\.(yaml|yml)$/, '.json'): the pattern is case-sensitive
ReplaceYamlExtension(fileName) ==
  IF EndsWith(fileName, DotYaml)
  THEN SubSeq(fileName, 1, Len(fileName) - Len(DotYaml)) \o DotJson
  ELSE IF EndsWith(fileName, DotYml)
  THEN SubSeq(fileName, 1, Len(fileName) - Len(DotYml)) \o DotJson
  ELSE fileName

(***************************************************************************)
(* UTF-8: readFileSync(path, 'utf8') decodes, Buffer.from(s, 'utf8')       *)
(* encodes.  An ill-formed byte decodes to U+FFFD.                         *)
(***************************************************************************)
ReplacementBytes == <<"xEF", "xBF", "xBD">>
NonAsciiBytes == {"xEF", "xBF", "xBD", "xFF"}

RECURSIVE utf8Decode(_)
utf8Decode(bytes) ==
  IF bytes = <<>> THEN <<>>
  ELSE IF StartsWithAt(bytes, 1, ReplacementBytes)
  THEN <<"uFFFD">> \o utf8Decode(SubSeq(bytes, 4, Len(bytes)))
  ELSE IF bytes[1] \in NonAsciiBytes
  THEN <<"uFFFD">> \o utf8Decode(Tail(bytes))
  ELSE <<bytes[1]>> \o utf8Decode(Tail(bytes))

RECURSIVE utf8Encode(_)
utf8Encode(text) ==
  IF text = <<>> THEN <<>>
  ELSE (IF text[1] = "uFFFD" THEN ReplacementBytes ELSE <<text[1]>>)
       \o utf8Encode(Tail(text))

(***************************************************************************)
(* JavaScript values                                                       *)
(***************************************************************************)
Undefined == [t |-> "undefined"]
JNull == [t |-> "null"]
JInfinity == [t |-> "Infinity"]
JBool(b) == [t |-> "boolean", b |-> b]
JNum(digits) == [t |-> "number", n |-> digits]
JStr(chars) == [t |-> "string", s |-> chars]
JArr(elems) == [t |-> "array", a |-> elems]
JObj(members) == [t |-> "object", o |-> members]

Thrown(msg) == [ok |-> FALSE, error |-> msg]
Returned(v) == [ok |-> TRUE, val |-> v]

(***************************************************************************)
(* JSON.parse, on the grammar: null, true, false, unsigned integers,       *)
(* strings without escapes, arrays, objects, whitespace " " and "\n".      *)
(***************************************************************************)
Whitespace == {" ", "\n"}
Digits == {"0", "1", "2", "3", "4", "5", "6", "7", "8", "9"}
NoParse == [ok |-> FALSE]
Parsed(v, pos) == [ok |-> TRUE, val |-> v, pos |-> pos]

RECURSIVE SkipWs(_, _)
SkipWs(s, i) ==
  IF i <= Len(s) /\ s[i] \in Whitespace THEN SkipWs(s, i + 1) ELSE i

RECURSIVE IndexFrom(_, _, _)
IndexFrom(s, c, i) ==
  IF i > Len(s) THEN 0 ELSE IF s[i] = c THEN i ELSE IndexFrom(s, c, i + 1)

RECURSIVE DigitsEnd(_, _)
DigitsEnd(s, i) ==
  IF i <= Len(s) /\ s[i] \in Digits THEN DigitsEnd(s, i + 1) ELSE i

\* the string opening at i and closing at j (0: unterminated)
StringTo(s, i, j) ==
  IF j = 0 THEN NoParse ELSE Parsed(JStr(SubSeq(s, i + 1, j - 1)), j + 1)

ParseString(s, i) == StringTo(s, i, IndexFrom(s, "\"", i + 1))

\* the digits from i to j - 1; no leading zero
NumberTo(s, i, j) ==
  IF s[i] = "0" /\ j > i + 1 THEN NoParse
  ELSE Parsed(JNum(SubSeq(s, i, j - 1)), j)

ParseNumber(s, i) == NumberTo(s, i, DigitsEnd(s, i))

ParseLiteral(s, i) ==
  IF StartsWithAt(s, i, <<"n", "u", "l", "l">>) THEN Parsed(JNull, i + 4)
  ELSE IF StartsWithAt(s, i, <<"t", "r", "u", "e">>)
  THEN Parsed(JBool(TRUE), i + 4)
  ELSE IF StartsWithAt(s, i, <<"f", "a", "l", "s", "e">>)
  THEN Parsed(JBool(FALSE), i + 5)
  ELSE NoParse

\* a later member with the same key replaces the earlier one's value
PutMember(members, k, v) ==
  IF \E i \in 1..Len(members) : members[i].k = k
  THEN [i \in 1..Len(members) |->
          IF members[i].k = k THEN [k |-> k, v |-> v] ELSE members[i]]
  ELSE Append(members, [k |-> k, v |-> v])

RECURSIVE ParseValue(_, _), ParseElements(_, _, _), ParseMembers(_, _, _)

\* after an element r: "," and the next element, or the closing "]" at k
ElementEnd(s, r, k, acc) ==
  IF k > Len(s) THEN NoParse
  ELSE IF s[k] = "," THEN ParseElements(s, k + 1, Append(acc, r.val))
  ELSE IF s[k] = "]" THEN Parsed(JArr(Append(acc, r.val)), k + 1)
  ELSE NoParse

AfterElement(s, r, acc) ==
  IF ~r.ok THEN NoParse ELSE ElementEnd(s, r, SkipWs(s, r.pos), acc)

ParseElements(s, i, acc) == AfterElement(s, ParseValue(s, i), acc)

\* after a member's value r: "," and the next member, or the closing "}" at k
MemberEnd(s, k, members) ==
  IF k > Len(s) THEN NoParse
  ELSE IF s[k] = "," THEN ParseMembers(s, k + 1, members)
  ELSE IF s[k] = "}" THEN Parsed(JObj(members), k + 1)
  ELSE NoParse

AfterMemberValue(s, key, r, acc) ==
  IF ~r.ok THEN NoParse
  ELSE MemberEnd(s, SkipWs(s, r.pos), PutMember(acc, key.val.s, r.val))

MemberColon(s, key, c, acc) ==
  IF c > Len(s) \/ s[c] # ":" THEN NoParse
  ELSE AfterMemberValue(s, key, ParseValue(s, c + 1), acc)

AfterMemberKey(s, key, acc) ==
  IF ~key.ok THEN NoParse ELSE MemberColon(s, key, SkipWs(s, key.pos), acc)

MemberKey(s, j, acc) ==
  IF j > Len(s) \/ s[j] # "\"" THEN NoParse
  ELSE AfterMemberKey(s, ParseString(s, j), acc)

ParseMembers(s, i, acc) == MemberKey(s, SkipWs(s, i), acc)

\* after "[" at j - 1: the closing "]" at k, or the elements
ArrayBody(s, j, k) ==
  IF k <= Len(s) /\ s[k] = "]" THEN Parsed(JArr(<<>>), k + 1)
  ELSE ParseElements(s, j, <<>>)

ObjectBody(s, j, k) ==
  IF k <= Len(s) /\ s[k] = "}" THEN Parsed(JObj(<<>>), k + 1)
  ELSE ParseMembers(s, j, <<>>)

ValueAt(s, j) ==
  IF j > Len(s) THEN NoParse
  ELSE CASE s[j] = "\"" -> ParseString(s, j)
         [] s[j] \in Digits -> ParseNumber(s, j)
         [] s[j] = "[" -> ArrayBody(s, j + 1, SkipWs(s, j + 1))
         [] s[j] = "{" -> ObjectBody(s, j + 1, SkipWs(s, j + 1))
         [] OTHER -> ParseLiteral(s, j)

ParseValue(s, i) == ValueAt(s, SkipWs(s, i))

\* the whole text must be one value
WholeText(text, r) ==
  IF r.ok /\ SkipWs(text, r.pos) > Len(text)
  THEN Returned(r.val)
  ELSE Thrown("Unexpected token in JSON")

JSONparse(text) == WholeText(text, ParseValue(text, 1))

(***************************************************************************)
(* JSON.stringify(value, null, 2)                                          *)
(***************************************************************************)
NullText == <<"n", "u", "l", "l">>
Indent(depth) == [i \in 1..(2 * depth) |-> " "]

RECURSIVE Serialize(_, _), SerializeElements(_, _, _), SerializeMembers(_, _, _)
Serialize(v, depth) ==
  CASE v.t = "null" -> NullText
    [] v.t = "Infinity" -> NullText
    [] v.t = "boolean" ->
         IF v.b THEN <<"t", "r", "u", "e">> ELSE <<"f", "a", "l", "s", "e">>
    [] v.t = "number" -> v.n
    [] v.t = "string" -> <<"\"">> \o v.s \o <<"\"">>
    [] v.t = "array" ->
         IF v.a = <<>> THEN <<"[", "]">>
         ELSE <<"[", "\n">> \o SerializeElements(v.a, 1, depth + 1)
              \o <<"\n">> \o Indent(depth) \o <<"]">>
    [] v.t = "object" ->
         IF v.o = <<>> THEN <<"{", "}">>
         ELSE <<"{", "\n">> \o SerializeMembers(v.o, 1, depth + 1)
              \o <<"\n">> \o Indent(depth) \o <<"}">>

SerializeElements(elems, i, depth) ==
  Indent(depth) \o Serialize(elems[i], depth)
  \o (IF i = Len(elems) THEN <<>>
      ELSE <<",", "\n">> \o SerializeElements(elems, i + 1, depth))

SerializeMembers(members, i, depth) ==
  Indent(depth) \o <<"\"">> \o members[i].k \o <<"\"", ":", " ">>
  \o Serialize(members[i].v, depth)
  \o (IF i = Len(members) THEN <<>>
      ELSE <<",", "\n">> \o SerializeMembers(members, i + 1, depth))

\* JSON.stringify(undefined) is undefined, not a string
JSONstringify(v) ==
  IF v = Undefined THEN Undefined ELSE JStr(Serialize(v, 0))

(***************************************************************************)
(* yaml.load, on the documents of the model: an empty document, a plain    *)
(* scalar, a one-line block mapping "key: value", or a flow value written  *)
(* in JSON syntax.                                                         *)
(***************************************************************************)
RECURSIVE TrimEnd(_)
TrimEnd(s) ==
  IF s # <<>> /\ s[Len(s)] \in Whitespace
  THEN TrimEnd(SubSeq(s, 1, Len(s) - 1)) ELSE s

Trim(s) == TrimEnd(SubSeq(s, SkipWs(s, 1), Len(s)))

FlowStart == {"[", "{", "\""}
FlowIndicators == {"[", "]", "{", "}", ","}

\* the core schema's resolution of a plain scalar
ResolvePlain(chars) ==
  IF chars \in {<<"~">>, NullText} THEN JNull
  ELSE IF chars = <<"t", "r", "u", "e">> THEN JBool(TRUE)
  ELSE IF chars = <<"f", "a", "l", "s", "e">> THEN JBool(FALSE)
  ELSE IF chars = <<".", "i", "n", "f">> THEN JInfinity
  ELSE IF DigitsEnd(chars, 1) > Len(chars)
          /\ (chars[1] # "0" \/ Len(chars) = 1) THEN JNum(chars)
  ELSE JStr(chars)

RECURSIVE IndexOfColonSpace(_, _)
IndexOfColonSpace(s, i) ==
  IF i >= Len(s) THEN 0
  ELSE IF s[i] = ":" /\ s[i + 1] = " " THEN i
  ELSE IndexOfColonSpace(s, i + 1)

YamlError == Thrown("bad YAML")

FlowNode(r) == IF r.ok THEN r ELSE YamlError

YamlNode(s) ==
  IF s[1] \in FlowStart THEN FlowNode(JSONparse(s))
  ELSE IF s[1] \in FlowIndicators THEN YamlError
  ELSE Returned(ResolvePlain(s))

BlockMapping(key, v) ==
  IF v.ok THEN Returned(JObj(<<[k |-> key, v |-> v.val]>>)) ELSE YamlError

\* s is the trimmed document, c the index of its first ": " (0 if none)
YamlDocument(s, c) ==
  IF s = <<>> THEN Returned(Undefined)
  ELSE IF c > 1 /\ s[1] \notin FlowStart
  THEN BlockMapping(SubSeq(s, 1, c - 1),
                    YamlNode(Trim(SubSeq(s, c + 1, Len(s)))))
  ELSE YamlNode(s)

TrimmedDocument(s) == YamlDocument(s, IndexOfColonSpace(s, 1))

yamlLoad(text) == TrimmedDocument(Trim(text))

(***************************************************************************)
(* Inputs of one invocation                                                *)
(***************************************************************************)
MaxBodyLen == 2

DefaultBaseUrl == "https://app.brainfi.sh"
ApiTokens == {"", "token"}
CatalogIds == {"", "catalog"}
BaseUrls == {"", "https://app.dev.brainfish.app", "not a url"}

\* "", a.yaml, a.yml, A.YAML, s.Yml, a.json, A.JSON, x.txt, n, .yaml, d/a.yml
Paths ==
  { <<>>,
    <<"a", ".", "y", "a", "m", "l">>,
    <<"a", ".", "y", "m", "l">>,
    <<"A", ".", "Y", "A", "M", "L">>,
    <<"s", ".", "Y", "m", "l">>,
    <<"a", ".", "j", "s", "o", "n">>,
    <<"A", ".", "J", "S", "O", "N">>,
    <<"x", ".", "t", "x", "t">>,
    <<"n">>,
    <<".", "y", "a", "m", "l">>,
    <<"d", "/", "a", ".", "y", "m", "l">> }

\* the file's bytes: empty, a newline, ~, null, 1, a, .inf, [1], {"a":1},
\* "a: 1\n", the unterminated [1 and "a, and a string holding the byte xFF
Documents ==
  { <<>>,
    <<"\n">>,
    <<"~">>,
    <<"n", "u", "l", "l">>,
    <<"1">>,
    <<"a">>,
    <<".", "i", "n", "f">>,
    <<"[", "1", "]">>,
    <<"{", "\"", "a", "\"", ":", "1", "}">>,
    <<"a", ":", " ", "1", "\n">>,
    <<"[", "1">>,
    <<"\"", "a">>,
    <<"\"", "xFF", "\"">> }

FsEntries ==
  {[kind |-> "missing"], [kind |-> "directory"]}
  \cup {[kind |-> "file", bytes |-> d] : d \in Documents}

StatusCodes == {199, 200, 201, 299, 300, 500}
BodyChars == {"o", "k"}
Bodies == UNION {[1..n -> BodyChars] : n \in 0..MaxBodyLen}
TransportErrors == {"ECONNRESET", "ENOTFOUND"}

NotSet == [set |-> FALSE]
SetTo(v) == [set |-> TRUE, value |-> v]
SuccessStatus == "OAS file successfully synced to Brainfish!"

VARIABLES
  inputs,        \* what core.getInput returns for the four inputs
  fsEntry,       \* what the file system holds at oas_file_path
  pc,            \* main's position
  fileData,      \* readOASFile's result
  processed,     \* processOASFile's result
  promise,       \* the promise uploadToBrainfish returns
  requests,      \* the HTTP requests sent, in order
  reqState,      \* the exchange: none, sent, responding, ended, errored,
                 \* aborted, or "ended, errored"
  response,      \* the response's status code and the body still to arrive
  responseData,  \* the response callback's accumulator
  outputs,       \* core.setOutput's status and uploaded_file
  failed         \* core.setFailed's message

vars ==
  <<inputs, fsEntry, pc, fileData, processed, promise, requests, reqState,
    response, responseData, outputs, failed>>

(***************************************************************************)
(* readOASFile                                                             *)
(***************************************************************************)
existsSync(entry) == entry.kind # "missing"

readFileSync(entry) ==
  IF entry.kind = "directory"
  THEN Thrown([pre |-> "EISDIR: illegal operation on a directory, read"])
  ELSE Returned(utf8Decode(entry.bytes))

readOASFile(filePath, entry) ==
  IF ~existsSync(entry)
  THEN Thrown([pre |-> "OAS file not found at path: ", path |-> filePath])
  ELSE LET read == readFileSync(entry)
       IN IF ~read.ok THEN read
          ELSE Returned([content |-> read.val,
                         extension |-> toLowerCase(extname(filePath)),
                         fileName |-> basename(filePath),
                         size |-> Len(entry.bytes)])

(***************************************************************************)
(* convertYamlToJson, processOASFile                                       *)
(***************************************************************************)
convertYamlToJson(yamlContent) ==
  LET parsedYaml == yamlLoad(yamlContent)
  IN IF parsedYaml.ok
     THEN Returned(JSONstringify(parsedYaml.val))
     ELSE Thrown([pre |-> "Failed to parse YAML content: ",
                  cause |-> parsedYaml.error])

IsYamlExtension(extension) == extension = DotYaml \/ extension = DotYml

ProcessedFileName(fileName) == ReplaceYamlExtension(fileName)

\* a JSON branch that re-serializes what it parsed, as the YAML branch does
JsonContentReserialized(content) == JSONstringify(JSONparse(content).val)

JsonContent(content) == JStr(content)

processOASFile(fd) ==
  IF IsYamlExtension(fd.extension)
  THEN LET converted == convertYamlToJson(fd.content)
       IN IF ~converted.ok THEN converted
          ELSE Returned([content |-> fd.content, extension |-> fd.extension,
                         fileName |-> fd.fileName, size |-> fd.size,
                         processedContent |-> converted.val,
                         processedFileName |-> ProcessedFileName(fd.fileName)])
  ELSE IF fd.extension = DotJson
  THEN LET parsed == JSONparse(fd.content)
       IN IF ~parsed.ok
          THEN Thrown([pre |-> "Invalid JSON format: ", cause |-> parsed.error])
          ELSE Returned([content |-> fd.content, extension |-> fd.extension,
                         fileName |-> fd.fileName, size |-> fd.size,
                         processedContent |-> JsonContent(fd.content),
                         processedFileName |-> fd.fileName])
  ELSE Thrown([pre |-> "Unsupported file format: ", ext |-> fd.extension,
               post |-> ". Supported formats: .yaml, .yml, .json"])

(***************************************************************************)
(* uploadToBrainfish: the promise, the executor, the event handlers        *)
(***************************************************************************)
Pending == [state |-> "pending"]

\* resolve and reject of a promise act only while it is pending
resolve(p, v) ==
  IF p.state = "pending" THEN [state |-> "fulfilled", value |-> v] ELSE p

\* a reject that overwrites a settled promise
rejectOverwrites(p, e) == [state |-> "rejected", reason |-> e]

reject(p, e) ==
  IF p.state = "pending" THEN [state |-> "rejected", reason |-> e] ELSE p

\* Buffer.from(processedContent, 'utf8') throws a TypeError on a non-string
BufferFrom(v) ==
  IF v.t = "string" THEN Returned(utf8Encode(v.s))
  ELSE Thrown([pre |-> "The first argument must be of type string or an instance of Buffer, ArrayBuffer, or Array or an Array-like Object. Received undefined"])

\* new URL(baseUrl) throws a TypeError on a string that is no URL
ParseUrl(baseUrl) ==
  IF baseUrl \in {DefaultBaseUrl, "https://app.dev.brainfish.app"}
  THEN Returned(baseUrl)
  ELSE Thrown([pre |-> "Invalid URL"])

EffectiveBaseUrl(in) == IF in.baseUrl = "" THEN DefaultBaseUrl ELSE in.baseUrl

\* the catalog ids of the model hold only characters encodeURIComponent keeps
BuildRequest(fd, apiToken, catalogId, baseUrl, fileBuffer) ==
  [method |-> "POST",
   baseUrl |-> baseUrl,
   path |-> "/api/catalogs.upload?catalogId=",
   catalogId |-> catalogId,
   authorization |-> <<"Bearer ", apiToken>>,
   field |-> "file",
   filename |-> fd.processedFileName,
   contentType |-> "application/json",
   body |-> fileBuffer]

\* an off-by-one upper end of the success range
IsSuccessStatusUpTo300(statusCode) == statusCode >= 200 /\ statusCode <= 300

IsSuccessStatus(statusCode) == statusCode >= 200 /\ statusCode < 300

\* response.on('data'): responseData += chunk
OnData(data, chunk) == data \o chunk

\* an 'end' handler that does not look at the status
OnEndIgnoresStatus(p, statusCode, data, fileName) ==
  resolve(p, [success |-> TRUE, statusCode |-> statusCode,
              data |-> data, fileName |-> fileName])

\* response.on('end')
OnEnd(p, statusCode, data, fileName) ==
  IF IsSuccessStatus(statusCode)
  THEN resolve(p, [success |-> TRUE, statusCode |-> statusCode,
                   data |-> data, fileName |-> fileName])
  ELSE reject(p, [pre |-> "Upload failed with status ", status |-> statusCode,
                  sep |-> ": ", body |-> data])

\* request.on('error')
OnRequestError(p, cause) ==
  reject(p, [pre |-> "Request failed: ", cause |-> cause])

(***************************************************************************)
(* main                                                                    *)
(***************************************************************************)
Init ==
  /\ inputs \in [apiToken : ApiTokens, catalogId : CatalogIds,
                 oasFilePath : Paths, baseUrl : BaseUrls]
  /\ fsEntry \in FsEntries
  /\ pc = "validate"
  /\ fileData = Undefined
  /\ processed = Undefined
  /\ promise = [state |-> "none"]
  /\ requests = <<>>
  /\ reqState = "none"
  /\ response = NotSet
  /\ responseData = <<>>
  /\ outputs = [status |-> NotSet, uploaded_file |-> NotSet]
  /\ failed = NotSet

\* main's catch block: core.setFailed(error.message)
Catch(message) ==
  /\ failed' = message
  /\ pc' = "done"

\* a validation that forgets the catalog id
RequiredInputErrorNoCatalog(in) ==
  IF in.apiToken = "" THEN Thrown([pre |-> "brainfish_api_token is required"])
  ELSE IF in.oasFilePath = <<>> THEN Thrown([pre |-> "oas_file_path is required"])
  ELSE Returned(in)

RequiredInputError(in) ==
  IF in.apiToken = "" THEN Thrown([pre |-> "brainfish_api_token is required"])
  ELSE IF in.catalogId = "" THEN Thrown([pre |-> "catalog_id is required"])
  ELSE IF in.oasFilePath = <<>> THEN Thrown([pre |-> "oas_file_path is required"])
  ELSE Returned(in)

ValidateInputs ==
  /\ pc = "validate"
  /\ LET checked == RequiredInputError(inputs)
     IN IF checked.ok
        THEN pc' = "read" /\ UNCHANGED failed
        ELSE Catch(checked.error)
  /\ UNCHANGED <<inputs, fsEntry, fileData, processed, promise, requests,
                 reqState, response, responseData, outputs>>

ReadFile ==
  /\ pc = "read"
  /\ LET read == readOASFile(inputs.oasFilePath, fsEntry)
     IN IF read.ok
        THEN fileData' = read.val /\ pc' = "process" /\ UNCHANGED failed
        ELSE Catch(read.error) /\ UNCHANGED fileData
  /\ UNCHANGED <<inputs, fsEntry, processed, promise, requests, reqState,
                 response, responseData, outputs>>

ProcessFile ==
  /\ pc = "process"
  /\ LET result == processOASFile(fileData)
     IN IF result.ok
        THEN processed' = result.val /\ pc' = "upload" /\ UNCHANGED failed
        ELSE Catch(result.error) /\ UNCHANGED processed
  /\ UNCHANGED <<inputs, fsEntry, fileData, promise, requests, reqState,
                 response, responseData, outputs>>

\* the promise's executor runs synchronously; what it throws rejects the promise
StartUpload ==
  /\ pc = "upload"
  /\ pc' = "await"
  /\ LET fileBuffer == BufferFrom(processed.processedContent)
         url == ParseUrl(EffectiveBaseUrl(inputs))
     IN IF ~fileBuffer.ok
        THEN promise' = reject(Pending, fileBuffer.error)
             /\ UNCHANGED <<requests, reqState>>
        ELSE IF ~url.ok
        THEN promise' = reject(Pending, url.error)
             /\ UNCHANGED <<requests, reqState>>
        ELSE /\ promise' = Pending
             /\ requests' = Append(requests,
                               BuildRequest(processed, inputs.apiToken,
                                            inputs.catalogId, url.val,
                                            fileBuffer.val))
             /\ reqState' = "sent"
  /\ UNCHANGED <<inputs, fsEntry, fileData, processed, response, responseData,
                 outputs, failed>>

\* the response callback: the headers arrived, the listeners are attached
ResponseArrives ==
  /\ reqState = "sent"
  /\ \E statusCode \in StatusCodes, body \in Bodies :
       response' = [statusCode |-> statusCode, body |-> body, rest |-> body]
  /\ reqState' = "responding"
  /\ responseData' = <<>>
  /\ UNCHANGED <<inputs, fsEntry, pc, fileData, processed, promise, requests,
                 outputs, failed>>

ResponseData ==
  /\ reqState = "responding"
  /\ \E n \in 1..Len(response.rest) :
       /\ responseData' = OnData(responseData, SubSeq(response.rest, 1, n))
       /\ response' = [response EXCEPT
                         !.rest = SubSeq(response.rest, n + 1, Len(response.rest))]
  /\ UNCHANGED <<inputs, fsEntry, pc, fileData, processed, promise, requests,
                 reqState, outputs, failed>>

ResponseEnd ==
  /\ reqState = "responding"
  /\ response.rest = <<>>
  /\ promise' = OnEnd(promise, response.statusCode, responseData,
                      processed.processedFileName)
  /\ reqState' = "ended"
  /\ UNCHANGED <<inputs, fsEntry, pc, fileData, processed, requests, response,
                 responseData, outputs, failed>>

\* a socket error: before a response, during its body, or after its end
RequestError ==
  /\ reqState \in {"sent", "responding", "ended"}
  /\ pc # "exited"
  /\ \E cause \in TransportErrors : promise' = OnRequestError(promise, cause)
  /\ reqState' = IF reqState = "ended" THEN "ended, errored" ELSE "errored"
  /\ UNCHANGED <<inputs, fsEntry, pc, fileData, processed, requests, response,
                 responseData, outputs, failed>>

\* the connection closes before the body ended: the response emits 'aborted'
\* and 'close', for which no listener is registered, and never 'end'
ResponseAborted ==
  /\ reqState = "responding"
  /\ reqState' = "aborted"
  /\ UNCHANGED <<inputs, fsEntry, pc, fileData, processed, promise, requests,
                 response, responseData, outputs, failed>>

\* main resumes after the await: steps 4 (the outputs) or the catch block
ResumeMain ==
  /\ pc = "await"
  /\ promise.state \in {"fulfilled", "rejected"}
  /\ IF promise.state = "fulfilled"
     THEN /\ outputs' = [status |-> SetTo(SuccessStatus),
                         uploaded_file |-> SetTo(promise.value.fileName)]
          /\ pc' = "done"
          /\ UNCHANGED failed
     ELSE Catch(promise.reason) /\ UNCHANGED outputs
  /\ UNCHANGED <<inputs, fsEntry, fileData, processed, promise, requests,
                 reqState, response, responseData>>

\* nothing is left to wait for while main still awaits: the process exits
EventLoopDrained ==
  /\ pc = "await"
  /\ promise.state = "pending"
  /\ reqState = "aborted"
  /\ pc' = "exited"
  /\ UNCHANGED <<inputs, fsEntry, fileData, processed, promise, requests,
                 reqState, response, responseData, outputs, failed>>

Next ==
  \/ ValidateInputs
  \/ ReadFile
  \/ ProcessFile
  \/ StartUpload
  \/ ResponseArrives
  \/ ResponseData
  \/ ResponseEnd
  \/ RequestError
  \/ ResponseAborted
  \/ ResumeMain
  \/ EventLoopDrained

Spec == Init /\ [][Next]_vars

(***************************************************************************)
(* Claims                                                                  *)
(***************************************************************************)
FailedPre == IF failed = NotSet THEN "" ELSE failed.pre
HasFailed == failed # NotSet
NoOutput == outputs.status = NotSet /\ outputs.uploaded_file = NotSet
BothOutputs == outputs.status # NotSet /\ outputs.uploaded_file # NotSet
ResponseEnded == reqState \in {"ended", "ended, errored"}
Normalized == processed # Undefined
SourceText == utf8Decode(fsEntry.bytes)
SourceExtension == toLowerCase(extname(inputs.oasFilePath))

RECURSIVE WellFormedUtf8(_)
WellFormedUtf8(bytes) ==
  IF bytes = <<>> THEN TRUE
  ELSE IF StartsWithAt(bytes, 1, ReplacementBytes)
  THEN WellFormedUtf8(SubSeq(bytes, 4, Len(bytes)))
  ELSE bytes[1] \notin NonAsciiBytes /\ WellFormedUtf8(Tail(bytes))

\* one of the stages before the upload cannot succeed on these inputs
EarlyStageFails ==
  \/ inputs.apiToken = ""
  \/ inputs.catalogId = ""
  \/ inputs.oasFilePath = <<>>
  \/ fsEntry.kind = "missing"
  \/ SourceExtension \notin {DotYaml, DotYml, DotJson}
  \/ /\ fsEntry.kind = "file"
     /\ SourceExtension \in {DotYaml, DotYml}
     /\ ~yamlLoad(SourceText).ok
  \/ /\ fsEntry.kind = "file"
     /\ SourceExtension = DotJson
     /\ ~JSONparse(SourceText).ok

\* C1: when the file is missing, its extension is not .yaml, .yml or .json,
\* its YAML or JSON does not parse, or a required input is empty, main never
\* reaches the upload, no request is ever sent, and main ends failed.
C1_NoRequestBeforeStagesSucceed ==
  EarlyStageFails =>
    /\ requests = <<>>
    /\ reqState = "none"
    /\ pc \in {"validate", "read", "process", "done"}
    /\ pc = "done" => (HasFailed /\ NoOutput)

C1_Witness ==
  /\ pc = "done"
  /\ FailedPre = "Failed to parse YAML content: "
  /\ requests = <<>>

\* the file name with its extension (whatever its case) replaced by .json
WithJsonExtension(fileName) ==
  SubSeq(fileName, 1, Len(fileName) - Len(extname(fileName))) \o DotJson

\* C2: for a file whose extension is .yaml or .yml in any case and that
\* parses, processedFileName (and uploaded_file) is the source file name with
\* that extension replaced by .json.
C2_YamlFileNameGetsJsonExtension ==
  (Normalized /\ IsYamlExtension(processed.extension)) =>
    /\ processed.processedFileName = WithJsonExtension(processed.fileName)
    /\ outputs.uploaded_file # NotSet =>
         outputs.uploaded_file = SetTo(WithJsonExtension(processed.fileName))

\* C3: once the response has ended, a status in 200..299 has fulfilled the
\* promise with the normalized file name and the whole response body, and main
\* reports that name as uploaded_file; any other status has rejected it with
\* the upload-failed message holding the status and the whole body, and main
\* reports that message as the failure.
C3_EndedResponseSettlesByStatus ==
  (ResponseEnded /\ requests # <<>>) =>
    IF response.statusCode \in 200..299
    THEN /\ promise = [state |-> "fulfilled",
                       value |-> [success |-> TRUE,
                                  statusCode |-> response.statusCode,
                                  data |-> response.body,
                                  fileName |-> processed.processedFileName]]
         /\ pc = "done" =>
              /\ outputs.uploaded_file = SetTo(processed.processedFileName)
              /\ ~HasFailed
    ELSE /\ promise = [state |-> "rejected",
                       reason |-> [pre |-> "Upload failed with status ",
                                   status |-> response.statusCode,
                                   sep |-> ": ",
                                   body |-> response.body]]
         /\ pc = "done" => (failed = promise.reason /\ NoOutput)

C3_Witness ==
  /\ pc = "done"
  /\ ResponseEnded
  /\ response.statusCode = 500
  /\ Len(response.body) = MaxBodyLen
  /\ FailedPre = "Upload failed with status "

Received2xx ==
  /\ ResponseEnded
  /\ response.statusCode \in 200..299

Settled == promise.state \in {"fulfilled", "rejected"}

\* C5: at most one request is sent, a sent request is never followed by
\* another, and a settled promise never changes, whatever events follow.
C5_OneRequestOneOutcome ==
  [][/\ Len(requests') <= 1
     /\ requests # <<>> => requests' = requests
     /\ Settled => promise' = promise]_vars

\* 'end' settled the upload and a request 'error' arrived afterwards
C5_Witness ==
  /\ reqState = "ended, errored"
  /\ Settled

ProcessEnded == pc \in {"done", "exited"}

\* C6: once the request is sent, the invocation never ends with neither the
\* success result nor the failure signal; a transport failure during the
\* response body ends it with an upload-failed error.
C6_SentRequestEndsInResult ==
  (requests # <<>> /\ ProcessEnded) =>
    /\ BothOutputs \/ HasFailed
    /\ reqState = "aborted" =>
         FailedPre \in {"Request failed: ", "Upload failed with status "}

PastNormalizer == pc \notin {"validate", "read", "process"}

\* C7: for every YAML document yaml.load parses, the normalizer's payload is
\* JSON text whose parse equals the parsed YAML, and the request body is that
\* payload.
C7_YamlPayloadRoundTrips ==
  (/\ fileData # Undefined
   /\ IsYamlExtension(fileData.extension)
   /\ yamlLoad(fileData.content).ok
   /\ PastNormalizer) =>
    /\ Normalized
    /\ processed.processedContent.t = "string"
    /\ JSONparse(processed.processedContent.s)
         = Returned(yamlLoad(fileData.content).val)
    /\ requests # <<>> =>
         requests[1].body = utf8Encode(processed.processedContent.s)
    /\ (pc # "upload" /\ ParseUrl(EffectiveBaseUrl(inputs)).ok) =>
         requests # <<>>

\* C8: for a .json file of well-formed UTF-8 whose content is valid JSON, the
\* payload is the content unchanged, the bytes sent are the file's bytes, and
\* the uploaded file name is the source file name.
C8_JsonPassesThrough ==
  (/\ Normalized
   /\ processed.extension = DotJson
   /\ WellFormedUtf8(fsEntry.bytes)) =>
    /\ processed.processedContent = JStr(SourceText)
    /\ processed.processedFileName = basename(inputs.oasFilePath)
    /\ requests # <<>> =>
         /\ requests[1].body = fsEntry.bytes
         /\ requests[1].filename = basename(inputs.oasFilePath)

C8_Witness ==
  /\ requests # <<>>
  /\ fileData.extension = DotJson
  /\ fsEntry.bytes = <<"{", "\"", "a", "\"", ":", "1", "}">>

PastLoader == pc \notin {"validate", "read"}

\* C9: for a path that is no existing file (missing, or a directory) the
\* loader fails with the file-not-found error, whatever the extension.
C9_NoFileIsFileNotFound ==
  (/\ RequiredInputError(inputs).ok
   /\ fsEntry.kind # "file"
   /\ PastLoader) =>
    /\ pc = "done"
    /\ FailedPre = "OAS file not found at path: "

IsJsonText(v) == v.t = "string" /\ JSONparse(v.s).ok

\* C10: every FileRecord yields a NormalizedPayload (JSON text and a file
\* name) or one of the three failures; the unsupported-format failure exactly
\* when the extension is not .yaml, .yml or .json.
C10_TotalDispatch ==
  (fileData # Undefined /\ PastNormalizer) =>
    /\ \/ Normalized /\ IsJsonText(processed.processedContent)
       \/ /\ ~Normalized
          /\ FailedPre \in {"Failed to parse YAML content: ",
                            "Invalid JSON format: ",
                            "Unsupported file format: "}
    /\ FailedPre = "Unsupported file format: "
         <=> fileData.extension \notin {DotYaml, DotYml, DotJson}

====
